---------------------------- MODULE Spec2Model ----------------------------
(***************************************************************************)
(* Model of game/consumers.py: the CheckersWrapper session registry, the   *)
(* coordinate mapper, move inference from board snapshots, the board       *)
(* reconciler, and the ChatConsumer connect / disconnect / receive         *)
(* handlers.  The rule engine (checkers.game.Game) is an external library; *)
(* it is modelled from its documented behaviour.                           *)
(***************************************************************************)
EXTENDS Integers, Sequences, FiniteSets, TLC

(***************************************************************************)
(* Bounds of the model.                                                    *)
(***************************************************************************)
NumParties == 3
NumKeys == 2
MaxSessions == 2
MaxPlies == 1
MaxGamePlies == 3
MaxBoardPlies == 2
MaxLoopPlies == 2

(***************************************************************************)
(* Program constants.                                                      *)
(***************************************************************************)
BoardSize == 8
Mirror == 33
Unassigned == -1

(* Rule-engine constants (checkers.board.Board / checkers.game.Game).      *)
Width == 4
Height == 8
PositionCount == 32
RowsPerUser == 3
MoveLimit == 40

None == 0
NoSquare == <<>>

Parties == 1..NumParties
Keys == 1..NumKeys
Rows == 0..(BoardSize - 1)
Cols == 0..(BoardSize - 1)
Players == {1, 2}

(***************************************************************************)
(* Generic helpers (Python built-ins).                                     *)
(***************************************************************************)
Abs(x) == IF x < 0 THEN -x ELSE x

RECURSIVE Filter(_, _)
Filter(s, keep) ==
    IF s = <<>> THEN <<>>
    ELSE (IF keep[Head(s)] THEN <<Head(s)>> ELSE <<>>) \o Filter(Tail(s), keep)

Contains(s, x) == \E i \in 1..Len(s) : s[i] = x

SeqRange(s) == {s[i] : i \in 1..Len(s)}

(* Python's "a if a else b" on lists.                                      *)
OrElse(a, b) == IF a # <<>> THEN a ELSE b

(***************************************************************************)
(* Coordinate mapper.                                                      *)
(***************************************************************************)
GridToCheckersNoMirror(row, col, player) ==
    LET res == (row * 4) + 1
        col2 == IF row % 2 = 0 THEN col - 1 ELSE col
    IN  res + (col2 \div 2)

GridToCheckersFromZero(row, col, player) ==
    LET res == row * 4
        col2 == IF row % 2 = 0 THEN col - 1 ELSE col
        pos == res + (col2 \div 2)
    IN  IF player = 1 THEN Abs(pos - Mirror) ELSE pos

grid_to_checkers(row, col, player) ==
    LET res == (row * 4) + 1
        col2 == IF row % 2 = 0 THEN col - 1 ELSE col
        pos == res + (col2 \div 2)
    IN  IF player = 1 THEN Abs(pos - Mirror) ELSE pos

CheckersToGridOddRowShift(num, player) ==
    LET n == IF player = 1 THEN Abs(num - Mirror) ELSE num
        row == (n - 1) \div 4
        col0 == (n - ((row * 4) + 1)) * 2
        col == IF row % 2 = 1 THEN col0 + 1 ELSE col0
    IN  <<row, col>>

checkers_to_grid(num, player) ==
    LET n == IF player = 1 THEN Abs(num - Mirror) ELSE num
        row == (n - 1) \div 4
        col0 == (n - ((row * 4) + 1)) * 2
        col == IF row % 2 = 0 THEN col0 + 1 ELSE col0
    IN  <<row, col>>


(***************************************************************************)
(* Rule engine: checkers.game.Game and checkers.board.Board.  A piece is   *)
(* [player, king, captured, position]; a captured piece has position None. *)
(* A game is [player_turn, pieces, further, prev_capture, moves,           *)
(* since_capture]; "further" is the position of the piece that must go on  *)
(* capturing (None when there is none).                                    *)
(***************************************************************************)
OtherPlayer(player) == IF player = 1 THEN 2 ELSE 1

RowOf(position) == ((position + (Width - 1)) \div Width) - 1

ColumnOf(position) == (position - 1) % Width

InLayout(row, column) == row \in 0..(Height - 1) /\ column \in 0..(Width - 1)

Layout(row, column) == (row * Width) + column + 1

StartingPieceCount == Width * RowsPerUser

NewPiece(player, position) ==
    [player |-> player, king |-> FALSE, captured |-> FALSE, position |-> position]

InitialPieces ==
    [i \in 1..(2 * StartingPieceCount) |->
        IF i <= StartingPieceCount
        THEN NewPiece(1, i)
        ELSE NewPiece(2, PositionCount - (2 * StartingPieceCount) + i)]

NewGame ==
    [player_turn |-> 1,
     pieces |-> InitialPieces,
     further |-> None,
     prev_capture |-> FALSE,
     moves |-> <<>>,
     since_capture |-> 0]

PieceIndexAt(pieces, position) ==
    IF \E i \in 1..Len(pieces) : ~pieces[i].captured /\ pieces[i].position = position
    THEN CHOOSE i \in 1..Len(pieces) : ~pieces[i].captured /\ pieces[i].position = position
    ELSE 0

PositionIsOpen(pieces, position) == PieceIndexAt(pieces, position) = 0

PositionHeldBy(pieces, position, player) ==
    \E i \in 1..Len(pieces) :
        ~pieces[i].captured /\ pieces[i].position = position /\ pieces[i].player = player

NextColumnIndexes(row, column) ==
    LET cands == IF row % 2 = 0 THEN <<column, column + 1>> ELSE <<column - 1, column>>
    IN  Filter(cands, [x \in {column - 1, column, column + 1} |-> x >= 0 /\ x < Width])

DirectionalAdjacent(piece, forward) ==
    LET row == RowOf(piece.position)
        next_row == row + ((IF piece.player = 1 THEN 1 ELSE -1) * (IF forward THEN 1 ELSE -1))
        cols == NextColumnIndexes(row, ColumnOf(piece.position))
    IN  IF next_row \notin 0..(Height - 1) THEN <<>>
        ELSE [i \in 1..Len(cols) |-> Layout(next_row, cols[i])]

AdjacentPositions(piece) ==
    DirectionalAdjacent(piece, TRUE)
        \o (IF piece.king THEN DirectionalAdjacent(piece, FALSE) ELSE <<>>)

PositionBehindEnemy(piece, enemy_position) ==
    LET current_row == RowOf(piece.position)
        current_column == ColumnOf(piece.position)
        enemy_column == ColumnOf(enemy_position)
        enemy_row == RowOf(enemy_position)
        column_adjustment == IF current_row % 2 = 0 THEN -1 ELSE 1
        column_behind == IF current_column = enemy_column
                         THEN current_column + column_adjustment
                         ELSE enemy_column
        row_behind == enemy_row + (enemy_row - current_row)
    IN  IF InLayout(row_behind, column_behind) THEN Layout(row_behind, column_behind) ELSE None

(* The adjacent enemy positions a piece can jump, in the order scanned.    *)
CapturableEnemies(pieces, piece) ==
    LET adj == AdjacentPositions(piece)
        ok == [q \in 1..PositionCount |->
                 /\ PositionHeldBy(pieces, q, OtherPlayer(piece.player))
                 /\ PositionBehindEnemy(piece, q) # None
                 /\ PositionIsOpen(pieces, PositionBehindEnemy(piece, q))]
    IN  Filter(adj, ok)

PieceCaptureMoves(pieces, piece) ==
    LET en == CapturableEnemies(pieces, piece)
    IN  [i \in 1..Len(en) |-> <<piece.position, PositionBehindEnemy(piece, en[i])>>]

PiecePositionalMoves(pieces, piece) ==
    LET adj == AdjacentPositions(piece)
        open == Filter(adj, [q \in 1..PositionCount |-> PositionIsOpen(pieces, q)])
    IN  [i \in 1..Len(open) |-> <<piece.position, open[i]>>]

PiecesInPlay(g) ==
    IF g.further # None
    THEN <<g.pieces[PieceIndexAt(g.pieces, g.further)]>>
    ELSE LET idx == Filter([i \in 1..Len(g.pieces) |-> i],
                           [i \in 1..Len(g.pieces) |->
                               ~g.pieces[i].captured /\ g.pieces[i].player = g.player_turn])
         IN  [i \in 1..Len(idx) |-> g.pieces[idx[i]]]

RECURSIVE ConcatCaptures(_, _)
ConcatCaptures(pieces, inplay) ==
    IF inplay = <<>> THEN <<>>
    ELSE PieceCaptureMoves(pieces, Head(inplay)) \o ConcatCaptures(pieces, Tail(inplay))

RECURSIVE ConcatPositional(_, _)
ConcatPositional(pieces, inplay) ==
    IF inplay = <<>> THEN <<>>
    ELSE PiecePositionalMoves(pieces, Head(inplay)) \o ConcatPositional(pieces, Tail(inplay))

PossibleCaptureMoves(g) == ConcatCaptures(g.pieces, PiecesInPlay(g))

PossiblePositionalMoves(g) == ConcatPositional(g.pieces, PiecesInPlay(g))

PossibleMoves(g) == OrElse(PossibleCaptureMoves(g), PossiblePositionalMoves(g))

IsOnEnemyHomeRow(player, position) ==
    RowOf(position) = RowOf(IF OtherPlayer(player) = 1 THEN 1 ELSE PositionCount)

SortKey(piece) == IF piece.position # None THEN piece.position ELSE 0

RECURSIVE InsertSorted(_, _)
InsertSorted(sorted, piece) ==
    IF sorted = <<>> THEN <<piece>>
    ELSE IF SortKey(sorted[Len(sorted)]) <= SortKey(piece)
         THEN Append(sorted, piece)
         ELSE Append(InsertSorted(SubSeq(sorted, 1, Len(sorted) - 1), piece),
                     sorted[Len(sorted)])

RECURSIVE StableSort(_)
StableSort(pieces) ==
    IF pieces = <<>> THEN <<>>
    ELSE InsertSorted(StableSort(SubSeq(pieces, 1, Len(pieces) - 1)), pieces[Len(pieces)])

(* Piece.move: the piece is crowned on the enemy's home row.                *)
PieceMove(piece, new_position) ==
    [piece EXCEPT !.position = new_position,
                  !.king = piece.king \/ IsOnEnemyHomeRow(piece.player, new_position)]

MovePieceAt(pieces, i, new_position) ==
    StableSort([pieces EXCEPT ![i] = PieceMove(pieces[i], new_position)])

MovePiece(pieces, move) == MovePieceAt(pieces, PieceIndexAt(pieces, move[1]), move[2])

SwitchTurn(turn) == IF turn = 2 THEN 1 ELSE 2

PieceAt(pieces, position) == pieces[PieceIndexAt(pieces, position)]

(* The enemy a capture move jumps over.                                    *)
CapturedEnemyPosition(pieces, piece, move) ==
    CHOOSE q \in SeqRange(CapturableEnemies(pieces, piece)) :
        PositionBehindEnemy(piece, q) = move[2]

(* Piece.capture                                                           *)
CapturePieceAt(pieces, e) ==
    [pieces EXCEPT ![e] = [@ EXCEPT !.captured = TRUE, !.position = None]]

(* The board after the enemy is taken and the piece has moved.             *)
CaptureBoard(g, move, piece) ==
    [g EXCEPT !.pieces = MovePiece(
                  CapturePieceAt(g.pieces,
                      PieceIndexAt(g.pieces, CapturedEnemyPosition(g.pieces, piece, move))),
                  move),
              !.prev_capture = TRUE,
              !.further = IF g.further # None THEN move[2] ELSE None]

StartsAt(capture_moves, position) ==
    \E k \in 1..Len(capture_moves) : capture_moves[k][1] = position

(* The same piece goes on when it can capture again and was not crowned.   *)
CaptureTurn(g, g2, move, was_king) ==
    IF StartsAt(PossibleCaptureMoves(g2), move[2])
        /\ (was_king = PieceAt(g2.pieces, move[2]).king)
    THEN [g2 EXCEPT !.further = move[2]]
    ELSE [g2 EXCEPT !.further = None, !.player_turn = SwitchTurn(g.player_turn)]

PerformCaptureMove(g, move) ==
    CaptureTurn(g, CaptureBoard(g, move, PieceAt(g.pieces, move[1])), move,
                PieceAt(g.pieces, move[1]).king)

PerformPositionalMove(g, move) ==
    [g EXCEPT !.pieces = MovePiece(g.pieces, move),
              !.prev_capture = FALSE,
              !.player_turn = SwitchTurn(g.player_turn)]

CreateNewBoardFromMove(g, move) ==
    IF Contains(PossibleCaptureMoves(g), move)
    THEN PerformCaptureMove(g, move)
    ELSE PerformPositionalMove(g, move)

(* Game.move raises ValueError when the move is not possible.              *)
GameMoveRaises(g, move) == ~Contains(PossibleMoves(g), move)

(* Game.move after the board has moved: the move is recorded and the       *)
(* moves-since-last-capture counter updated.                               *)
RecordMove(g, b, move) ==
    [b EXCEPT !.moves = Append(g.moves, move),
              !.since_capture = IF b.prev_capture THEN 0 ELSE g.since_capture + 1]

GameMove(g, move) == RecordMove(g, CreateNewBoardFromMove(g, move), move)

MoveLimitReached(g) == g.since_capture >= MoveLimit

GameIsOver(g) == MoveLimitReached(g) \/ PossibleMoves(g) = <<>>

IsMovable(pieces, piece) ==
    /\ (PieceCaptureMoves(pieces, piece) # <<>> \/ PiecePositionalMoves(pieces, piece) # <<>>)
    /\ ~piece.captured

CountMovablePlayerPieces(g, player) ==
    Cardinality({i \in 1..Len(g.pieces) :
        /\ ~g.pieces[i].captured
        /\ g.pieces[i].player = player
        /\ IsMovable(g.pieces, g.pieces[i])})

GameWinner(g) ==
    IF g.player_turn = 1 /\ CountMovablePlayerPieces(g, 1) = 0 THEN 2
    ELSE IF g.player_turn = 2 /\ CountMovablePlayerPieces(g, 2) = 0 THEN 1
    ELSE None


(***************************************************************************)
(* CheckersWrapper: a session is [game, instance_count].  A board snapshot *)
(* is an 8x8 matrix of booleans, board[row][col].                          *)
(***************************************************************************)
NewSession == [game |-> NewGame, instance_count |-> 0]

EmptyBoard == [r \in Rows |-> [c \in Cols |-> FALSE]]

BoardOf(squares) == [r \in Rows |-> [c \in Cols |-> <<r, c>> \in squares]]

whose_turn(g) == g.player_turn

moves(g) == PossibleMoves(g)

(* make_move: [ok, game]; any exception of the engine is swallowed.        *)
make_move(g, move) ==
    IF GameMoveRaises(g, move)
    THEN [ok |-> FALSE, game |-> g]
    ELSE [ok |-> TRUE, game |-> GameMove(g, move)]

RECURSIVE BoardsSameColsKeepFirst(_, _, _, _, _)
BoardsSameColsKeepFirst(prev_board, curr_board, r, c, found) ==
    IF c >= BoardSize THEN found
    ELSE IF prev_board[r][c] /\ ~curr_board[r][c]
         THEN BoardsSameColsKeepFirst(prev_board, curr_board, r, c + 1,
                  <<IF found[1] = NoSquare THEN <<r, c>> ELSE found[1], found[2]>>)
         ELSE IF ~prev_board[r][c] /\ curr_board[r][c]
              THEN BoardsSameColsKeepFirst(prev_board, curr_board, r, c + 1,
                       <<found[1], IF found[2] = NoSquare THEN <<r, c>> ELSE found[2]>>)
              ELSE BoardsSameColsKeepFirst(prev_board, curr_board, r, c + 1, found)

(* boards_same: the inner loop over the columns of row r; the result is    *)
(* <<start_pos, end_pos>>.                                                 *)
RECURSIVE BoardsSameCols(_, _, _, _, _)
BoardsSameCols(prev_board, curr_board, r, c, found) ==
    IF c >= BoardSize THEN found
    ELSE IF prev_board[r][c] /\ ~curr_board[r][c]
         THEN BoardsSameCols(prev_board, curr_board, r, c + 1, <<<<r, c>>, found[2]>>)
         ELSE IF ~prev_board[r][c] /\ curr_board[r][c]
              THEN BoardsSameCols(prev_board, curr_board, r, c + 1, <<found[1], <<r, c>>>>)
              ELSE BoardsSameCols(prev_board, curr_board, r, c + 1, found)

(* boards_same: the outer loop over the rows.                              *)
RECURSIVE BoardsSameRows(_, _, _, _)
BoardsSameRows(prev_board, curr_board, r, found) ==
    IF r >= BoardSize THEN found
    ELSE BoardsSameRows(prev_board, curr_board, r + 1,
             BoardsSameCols(prev_board, curr_board, r, 0, found))

boards_same(prev_board, curr_board) ==
    BoardsSameRows(prev_board, curr_board, 0, <<NoSquare, NoSquare>>)

InferredMove(start_pos, end_pos, player) ==
    <<grid_to_checkers(start_pos[1], start_pos[2], player),
      grid_to_checkers(end_pos[1], end_pos[2], player)>>

(* The reply of make_move_from_board once the engine has been asked.       *)
MoveFromBoardOutcome(mm, move, end_pos) ==
    [result |-> mm.ok,
     error_location |-> IF mm.ok THEN <<>> ELSE <<end_pos>>,
     game |-> mm.game,
     calls |-> <<move>>]

ApplyInferred(g, move, end_pos) == MoveFromBoardOutcome(make_move(g, move), move, end_pos)

NoMoveOutcome(g) == [result |-> FALSE, error_location |-> <<>>, game |-> g, calls |-> <<>>]

MakeMoveFromSquaresErrorIsStart(g, se, player) ==
    IF se[1] = NoSquare \/ se[2] = NoSquare
    THEN NoMoveOutcome(g)
    ELSE ApplyInferred(g, InferredMove(se[1], se[2], player), se[1])

MakeMoveFromSquaresNoNoneCheck(g, se, player) ==
    LET s == IF se[1] = NoSquare THEN <<0, 0>> ELSE se[1]
        e == IF se[2] = NoSquare THEN <<0, 0>> ELSE se[2]
    IN  ApplyInferred(g, InferredMove(s, e, player), e)

MakeMoveFromSquaresSwapped(g, se, player) ==
    IF se[1] = NoSquare \/ se[2] = NoSquare
    THEN NoMoveOutcome(g)
    ELSE ApplyInferred(g, InferredMove(se[2], se[1], player), se[2])

(* make_move_from_board after boards_same: se is <<start_pos, end_pos>>.   *)
MakeMoveFromSquares(g, se, player) ==
    IF se[1] = NoSquare \/ se[2] = NoSquare
    THEN NoMoveOutcome(g)
    ELSE ApplyInferred(g, InferredMove(se[1], se[2], player), se[2])

(* make_move_from_board: [result, error_location, game, calls]; calls is   *)
(* the sequence of moves handed to the engine.                             *)
make_move_from_board(g, prev_board, curr_board, player) ==
    MakeMoveFromSquares(g, boards_same(prev_board, curr_board), player)

(* random_player_move: every outcome of the random choices, each           *)
(* [result, game, calls].                                                  *)
RECURSIVE RandomPlayerLoop(_, _, _)
RandomPlayerStep(mm, turn, calls) ==
    IF ~mm.ok
    THEN {[result |-> FALSE, game |-> mm.game, calls |-> calls]}
    ELSE RandomPlayerLoop(mm.game, turn, calls)

RandomPlayerChoices(g, turn, calls, ms) ==
    IF Len(ms) = 0
    THEN {[result |-> FALSE, game |-> g, calls |-> calls]}
    ELSE UNION {RandomPlayerStep(make_move(g, ms[i]), turn, Append(calls, ms[i])) :
                    i \in 1..Len(ms)}

RandomPlayerLoop(g, turn, calls) ==
    IF whose_turn(g) # turn
    THEN {[result |-> TRUE, game |-> g, calls |-> calls]}
    ELSE RandomPlayerChoices(g, turn, calls, moves(g))

random_player_move(g) == RandomPlayerLoop(g, whose_turn(g), <<>>)

RECURSIVE AddOpponentLoopOtherFrame(_, _, _, _)
AddOpponentLoopOtherFrame(pieces, i, player, opponent_board) ==
    IF i > Len(pieces) THEN opponent_board
    ELSE IF OtherPlayer(pieces[i].player) = player /\ ~pieces[i].captured
         THEN LET rc == checkers_to_grid(pieces[i].position, OtherPlayer(player))
              IN  AddOpponentLoopOtherFrame(pieces, i + 1, player,
                      [opponent_board EXCEPT ![rc[1]][rc[2]] = TRUE])
         ELSE AddOpponentLoopOtherFrame(pieces, i + 1, player, opponent_board)

RECURSIVE AddOpponentLoop(_, _, _, _)
AddOpponentLoop(pieces, i, player, opponent_board) ==
    IF i > Len(pieces) THEN opponent_board
    ELSE IF OtherPlayer(pieces[i].player) = player /\ ~pieces[i].captured
         THEN LET rc == checkers_to_grid(pieces[i].position, player)
              IN  AddOpponentLoop(pieces, i + 1, player,
                      [opponent_board EXCEPT ![rc[1]][rc[2]] = TRUE])
         ELSE AddOpponentLoop(pieces, i + 1, player, opponent_board)

AddOpponentPiecesOwn(g, player) ==
    BoardOf({checkers_to_grid(g.pieces[i].position, player) :
                i \in {j \in 1..Len(g.pieces) :
                          g.pieces[j].player = player /\ ~g.pieces[j].captured}})

add_opponent_pieces(g, player) == AddOpponentLoop(g.pieces, 1, player, EmptyBoard)

(* validate_player_board, first loop: <<invalid_positions, seen>>.         *)
RECURSIVE ValidatePieces(_, _, _, _, _, _)
ValidatePieces(pieces, i, board, player, invalid_positions, seen) ==
    IF i > Len(pieces) THEN <<invalid_positions, seen>>
    ELSE IF pieces[i].player = player /\ ~pieces[i].captured
         THEN LET rc == checkers_to_grid(pieces[i].position, player)
              IN  ValidatePieces(pieces, i + 1, board, player,
                      IF ~board[rc[1]][rc[2]]
                      THEN Append(invalid_positions, rc) ELSE invalid_positions,
                      seen \cup {rc})
         ELSE ValidatePieces(pieces, i + 1, board, player, invalid_positions, seen)

(* validate_player_board, second loop: the columns of row r.               *)
RECURSIVE ValidateCols(_, _, _, _, _)
ValidateCols(r, c, board, seen, invalid_positions) ==
    IF c >= BoardSize THEN invalid_positions
    ELSE ValidateCols(r, c + 1, board, seen,
             IF (<<r, c>> \notin seen) /\ board[r][c]
             THEN Append(invalid_positions, <<r, c>>) ELSE invalid_positions)

(* validate_player_board, second loop: the rows.                           *)
RECURSIVE ValidateRows(_, _, _, _)
ValidateRows(r, board, seen, invalid_positions) ==
    IF r >= BoardSize THEN invalid_positions
    ELSE ValidateRows(r + 1, board, seen, ValidateCols(r, 0, board, seen, invalid_positions))

ValidatePlayerBoardNoExtras(g, board, player) ==
    ValidatePieces(g.pieces, 1, board, player, <<>>, {})[1]

validate_player_board(g, board, player) ==
    LET first == ValidatePieces(g.pieces, 1, board, player, <<>>, {})
    IN  ValidateRows(0, board, first[2], first[1])

is_over(g) ==
    IF GameIsOver(g)
    THEN (IF GameWinner(g) = None THEN "None" ELSE GameWinner(g))
    ELSE 0


(***************************************************************************)
(* State.  instances maps a room key to the id of its session (0: the key  *)
(* is absent); heap holds the CheckersWrapper objects by id, Freed once    *)
(* nothing refers to them.  Per party (one consumer at a time): pc is the  *)
(* handler position, room_group_name / game_ref / player_num the           *)
(* consumer's attributes, text_data the command being answered, results    *)
(* the reply being sent.  History: calls (moves handed to the engine by    *)
(* the command being answered), joins (parties that ever joined a          *)
(* session), join_order (a party's rank among them, 3 for the third and    *)
(* later), ended (per key, whether a session's count has fallen to zero,   *)
(* and whether the last such session had moves played: "none", "unmoved",  *)
(* "moved").                                                               *)
(* frame holds the local variable of a handler inside random_player_move.  *)
(* mapper is the coordinate mapper exercised on its own: the square given, *)
(* and per player argument the notation computed from it (<<n>>, <<>>      *)
(* before the call) and the square computed back from that; when the       *)
(* mapper is exercised from a notation number, nums is the input and backs *)
(* the notation computed back from the square.                             *)
(***************************************************************************)
VARIABLES instances, heap, pc, room_group_name, game_ref, player_num,
          text_data, results, calls, joins, join_order, ended, mapper, frame

vars == <<instances, heap, pc, room_group_name, game_ref, player_num,
          text_data, results, calls, joins, join_order, ended, mapper, frame>>

Freed == [freed |-> TRUE]

NoMessage == [command |-> "", arguments |-> <<>>]

(* The local whose_turn of random_player_move; 0 outside the call.         *)
NoFrame == [whose_turn |-> 0]

MapperPlayers == {1, 2, Unassigned}

MapperIdle ==
    [grid_in |-> <<0, 1>>,
     nums |-> [pl \in MapperPlayers |-> <<>>],
     grids |-> [pl \in MapperPlayers |-> NoSquare],
     backs |-> [pl \in MapperPlayers |-> <<>>]]

InitSystem ==
    /\ instances = [k \in Keys |-> 0]
    /\ heap = <<>>
    /\ pc = [p \in Parties |-> "idle"]
    /\ room_group_name = [p \in Parties |-> 0]
    /\ game_ref = [p \in Parties |-> 0]
    /\ player_num = [p \in Parties |-> 0]
    /\ text_data = [p \in Parties |-> NoMessage]
    /\ results = [p \in Parties |-> <<>>]
    /\ calls = [p \in Parties |-> <<>>]
    /\ joins = <<>>
    /\ join_order = [p \in Parties |-> 0]
    /\ ended = [k \in Keys |-> "none"]
    /\ frame = [p \in Parties |-> NoFrame]

Init == InitSystem /\ mapper = MapperIdle

(***************************************************************************)
(* Session registry.                                                       *)
(***************************************************************************)
GetInstanceAlwaysCreates(inst, hp, key) ==
    [instances |-> [inst EXCEPT ![key] = Len(hp) + 1],
     heap |-> Append(hp, NewSession),
     ref |-> Len(hp) + 1]

(* get_instance: [instances, heap, ref], ref the session returned.         *)
get_instance(inst, hp, key) ==
    IF inst[key] = 0
    THEN [instances |-> [inst EXCEPT ![key] = Len(hp) + 1],
          heap |-> Append(hp, NewSession),
          ref |-> Len(hp) + 1]
    ELSE [instances |-> inst, heap |-> hp, ref |-> inst[key]]

RemoveInstanceKeeps(inst, key) == inst

remove_instance(inst, key) ==
    IF inst[key] # 0 THEN [inst EXCEPT ![key] = 0] ELSE inst

(* connect: the player slot for the instance_count just reached.           *)
PlayerSlot(count) == IF count = 1 \/ count = 2 THEN count ELSE Unassigned

LastUserGoneBelowZero(count) == count < 0

(* disconnect: whether the session is removed at this instance_count.      *)
LastUserGone(count) == count <= 0

(* Reference counting: an object nothing refers to is freed.               *)
Referenced(inst, refs, pcs) ==
    {inst[k] : k \in Keys} \cup {refs[p] : p \in {q \in Parties : pcs[q] # "idle"}}

Collect(hp, inst, refs, pcs) ==
    [i \in 1..Len(hp) |-> IF i \in Referenced(inst, refs, pcs) THEN hp[i] ELSE Freed]

Connected(p) == pc[p] # "idle"

(* A new connection gets a new consumer; the model names it by the lowest   *)
(* index that no live consumer holds.                                      *)
Connect(p, key) ==
    /\ pc[p] = "idle"
    /\ \A q \in 1..(p - 1) : pc[q] # "idle"
    /\ LET gi == get_instance(instances, heap, key)
           count == gi.heap[gi.ref].instance_count + 1
           rank == IF gi.ref > Len(joins) THEN 1
                   ELSE IF joins[gi.ref] >= 2 THEN 3 ELSE joins[gi.ref] + 1
       IN  /\ Len(gi.heap) <= MaxSessions
           /\ instances' = gi.instances
           /\ heap' = [gi.heap EXCEPT ![gi.ref].instance_count = count]
           /\ room_group_name' = [room_group_name EXCEPT ![p] = key]
           /\ game_ref' = [game_ref EXCEPT ![p] = gi.ref]
           /\ player_num' = [player_num EXCEPT ![p] = PlayerSlot(count)]
           /\ joins' = [i \in 1..Len(gi.heap) |->
                           IF i = gi.ref THEN rank
                           ELSE IF i <= Len(joins) THEN joins[i] ELSE 0]
           /\ join_order' = [join_order EXCEPT ![p] = rank]
    /\ pc' = [pc EXCEPT ![p] = "accepting"]
    /\ UNCHANGED <<text_data, results, calls, ended, mapper, frame>>

(* connect resumes after "await self.accept()".                            *)
Accept(p) ==
    /\ pc[p] = "accepting"
    /\ pc' = [pc EXCEPT ![p] = "open"]
    /\ UNCHANGED <<instances, heap, room_group_name, game_ref, player_num,
                   text_data, results, calls, joins, join_order, ended, mapper, frame>>

Disconnect(p) ==
    /\ pc[p] = "open"
    /\ LET ref == game_ref[p]
           key == room_group_name[p]
           count == heap[ref].instance_count - 1
           hp == [heap EXCEPT ![ref].instance_count = count]
           inst == IF LastUserGone(count) THEN remove_instance(instances, key)
                   ELSE instances
           pcs == [pc EXCEPT ![p] = "idle"]
           live == Collect(hp, inst, game_ref, pcs)
       IN  /\ instances' = inst
           /\ heap' = live
           /\ joins' = [i \in 1..Len(joins) |-> IF live[i] = Freed THEN 0 ELSE joins[i]]
           /\ ended' = IF count <= 0
                       THEN [ended EXCEPT ![key] =
                               IF heap[ref].game.moves # <<>> THEN "moved" ELSE "unmoved"]
                       ELSE ended
           /\ pc' = pcs
    /\ room_group_name' = [room_group_name EXCEPT ![p] = 0]
    /\ game_ref' = [game_ref EXCEPT ![p] = 0]
    /\ player_num' = [player_num EXCEPT ![p] = 0]
    /\ join_order' = [join_order EXCEPT ![p] = 0]
    /\ UNCHANGED <<text_data, results, calls, mapper, frame>>

(***************************************************************************)
(* receive: the outcomes of a command, each [results, game, calls].        *)
(***************************************************************************)
ReadReplyResets(g, value) ==
    {[results |-> <<value>>, game |-> NewGame, calls |-> <<>>]}

(* The reply of a command that only reads the session.                     *)
ReadReply(g, value) ==
    {[results |-> <<value>>, game |-> g, calls |-> <<>>]}

MoveFromBoardReply(r) ==
    {[results |-> <<r.result, r.error_location>>, game |-> r.game, calls |-> r.calls]}

MakeMoveReply(mm, move) ==
    {[results |-> <<mm.ok>>, game |-> mm.game, calls |-> <<move>>]}

Dispatch(g, pnum, msg) ==
    LET cmd == msg.command
        args == msg.arguments
    IN  CASE cmd = "add_opponent_pieces" ->
               ReadReply(g, add_opponent_pieces(g, pnum))
          [] cmd = "validate_player_board" ->
               ReadReply(g, validate_player_board(g, args[1], pnum))
          [] cmd = "whose_turn" ->
               ReadReply(g, whose_turn(g))
          [] cmd = "make_move_from_board" ->
               MoveFromBoardReply(make_move_from_board(g, args[1], args[2], pnum))
          [] cmd = "random_player_move" ->
               {[results |-> <<o.result>>, game |-> o.game, calls |-> o.calls] :
                   o \in random_player_move(g)}
          [] cmd = "is_over" ->
               ReadReply(g, is_over(g))
          [] cmd = "player_num" ->
               ReadReply(g, pnum)
          [] cmd = "make_move" ->
               MakeMoveReply(make_move(g, args[1]), args[1])
          [] cmd = "moves" ->
               ReadReply(g, moves(g))
          [] cmd = "echo" ->
               {[results |-> <<<<"echoing: ", args[1]>>>>, game |-> g, calls |-> <<>>]}
          [] OTHER ->
               {[results |-> <<>>, game |-> g, calls |-> <<>>]}

Receive(p, msg) ==
    /\ pc[p] = "open"
    /\ \E out \in Dispatch(heap[game_ref[p]].game, player_num[p], msg) :
          /\ heap' = [heap EXCEPT ![game_ref[p]].game = out.game]
          /\ results' = [results EXCEPT ![p] = out.results]
          /\ calls' = [calls EXCEPT ![p] = out.calls]
    /\ text_data' = [text_data EXCEPT ![p] = msg]
    /\ pc' = [pc EXCEPT ![p] = "sending"]
    /\ UNCHANGED <<instances, room_group_name, game_ref, player_num,
                   joins, join_order, ended, mapper, frame>>

(* receive resumes after "await self.send(...)".                           *)
Send(p) ==
    /\ pc[p] = "sending"
    /\ pc' = [pc EXCEPT ![p] = "open"]
    /\ text_data' = [text_data EXCEPT ![p] = NoMessage]
    /\ results' = [results EXCEPT ![p] = <<>>]
    /\ calls' = [calls EXCEPT ![p] = <<>>]
    /\ UNCHANGED <<instances, heap, room_group_name, game_ref, player_num,
                   joins, join_order, ended, mapper, frame>>


(***************************************************************************)
(* Commands drawn as inputs.                                               *)
(***************************************************************************)
Msg(cmd, args) == [command |-> cmd, arguments |-> args]

IllegalMove == <<1, 5>>

(* The squares a camera over player q's board sees q's own pieces on.      *)
OwnSquares(g, q) ==
    {checkers_to_grid(g.pieces[i].position, q) :
        i \in {j \in 1..Len(g.pieces) : g.pieces[j].player = q /\ ~g.pieces[j].captured}}

IsDark(sq) == (sq[1] + sq[2]) % 2 = 1

Occupied(board) == {sq \in Rows \X Cols : board[sq[1]][sq[2]]}

OnBoard(sq) == sq[1] \in Rows /\ sq[2] \in Cols

(* The dark squares one or two diagonal steps away from a square.          *)
Near(sq) ==
    {t \in {<<sq[1] + dr, sq[2] + dc>> : dr \in {-2, -1, 1, 2}, dc \in {-2, -1, 1, 2}} :
        OnBoard(t) /\ Abs(t[1] - sq[1]) = Abs(t[2] - sq[2])}

FarSquares == {<<0, 1>>, <<3, 4>>, <<4, 3>>}

(* Snapshot pairs around a physical board: nothing changed, one piece      *)
(* lifted, one piece added, one piece moved.                               *)
SnapshotPairs(base) ==
    {<<BoardOf(base), BoardOf(base)>>}
    \cup {<<BoardOf(base), BoardOf(base \ {v})>> : v \in base}
    \cup {<<BoardOf(base), BoardOf(base \cup {f})>> : f \in FarSquares \ base}
    \cup {<<BoardOf(base), BoardOf((base \ {pr[1]}) \cup {pr[2]})>> :
             pr \in {x \in base \X (UNION {Near(v) : v \in base}) :
                        x[2] \in Near(x[1]) /\ x[2] \notin base}}

ReadCommands ==
    {Msg(c, <<>>) : c \in {"add_opponent_pieces", "whose_turn", "is_over",
                          "player_num", "moves", "noop"}}
    \cup {Msg("echo", <<"hi">>)}

BoardsToValidate(g) ==
    UNION {{BoardOf(OwnSquares(g, q)),
            BoardOf(OwnSquares(g, q) \cup {<<3, 4>>}),
            add_opponent_pieces(g, q)} : q \in Players}

(* Commands of the session-registry runs: few, but they move pieces.       *)
FixedMoves == {<<11, 15>>}

SmallMessages == {Msg("make_move", <<m>>) : m \in FixedMoves}

(* Commands of the game runs.                                              *)
GameMessages(g) ==
    ReadCommands
    \cup {Msg("random_player_move", <<>>), Msg("make_move", <<IllegalMove>>)}
    \cup {Msg("make_move", <<m>>) : m \in SeqRange(PossibleMoves(g))}
    \cup {Msg("validate_player_board", <<b>>) : b \in BoardsToValidate(g)}
    \cup {Msg("make_move_from_board", <<pr[1], pr[2]>>) :
             pr \in UNION {SnapshotPairs(OwnSquares(g, q)) : q \in Players}}

RECURSIVE PliesIn(_, _)
PliesIn(hp, i) ==
    IF i = 0 THEN 0
    ELSE (IF hp[i] = Freed THEN 0 ELSE Len(hp[i].game.moves)) + PliesIn(hp, i - 1)

GameOf(p) == heap[game_ref[p]].game

(***************************************************************************)
(* Spec: connects, disconnects and commands of every party on every key,   *)
(* in any interleaving of the handlers at their await points.              *)
(***************************************************************************)
Command(p) ==
    /\ pc[p] = "open"
    /\ PliesIn(heap, Len(heap)) < MaxPlies
    /\ \E msg \in SmallMessages : Receive(p, msg)

Next ==
    \E p \in Parties :
        \/ \E key \in Keys : Connect(p, key)
        \/ Accept(p)
        \/ Disconnect(p)
        \/ Command(p)
        \/ Send(p)

Spec == Init /\ [][Next]_vars

(***************************************************************************)
(* SpecGame: one match.  Three parties join room 1 in turn (slots 1, 2 and *)
(* unassigned) and then send commands one at a time.                       *)
(***************************************************************************)
GameParties == 1..3

Join(p) ==
    /\ IF p = 1 THEN TRUE ELSE pc[p - 1] = "open"
    /\ Connect(p, 1)

GameCommand(p) ==
    /\ \A q \in GameParties : pc[q] = "open"
    /\ Len(GameOf(p).moves) < MaxGamePlies
    /\ \E msg \in GameMessages(GameOf(p)) : Receive(p, msg)

NextGame ==
    \E p \in GameParties :
        \/ Join(p)
        \/ Accept(p)
        \/ GameCommand(p)
        \/ Send(p)

SpecGame == Init /\ [][NextGame]_vars

(***************************************************************************)
(* SpecBoards: one match in which the parties send snapshot pairs that     *)
(* break the requirements of make_move_from_board: more than one           *)
(* difference, or a move of an opponent's piece.                           *)
(***************************************************************************)
ScanBefore(a, b) == a[1] < b[1] \/ (a[1] = b[1] /\ a[2] < b[2])

FirstInScan(S) == CHOOSE x \in S : \A y \in S : y = x \/ ScanBefore(x, y)

LastInScan(S) == CHOOSE x \in S : \A y \in S : y = x \/ ScanBefore(y, x)

(* One piece of base moved one or two diagonal steps to a free square.     *)
MovedPieces(base) ==
    {pr \in base \X (UNION {Near(v) : v \in base}) :
        pr[2] \in Near(pr[1]) /\ pr[2] \notin base}

MovePairs(base) ==
    {<<BoardOf(base), BoardOf((base \ {pr[1]}) \cup {pr[2]})>> : pr \in MovedPieces(base)}

(* A move together with another piece lifted, another piece added, or both; *)
(* two pieces lifted; two pieces added.                                    *)
MultiPairs(base) ==
    LET ends == {FirstInScan(base), LastInScan(base)}
    IN  {<<BoardOf(base), BoardOf((base \ ({pr[1]} \cup X)) \cup ({pr[2]} \cup Y))>> :
             pr \in MovedPieces(base),
             X \in {{}} \cup {{v} : v \in ends},
             Y \in {{}} \cup {{f} : f \in FarSquares \ base}}
        \cup {<<BoardOf(base), BoardOf(base \ ends)>>,
              <<BoardOf(base), BoardOf(base \cup FarSquares)>>}

OpponentSquares(g, q) == Occupied(add_opponent_pieces(g, q))

BoardMessages(g) ==
    {Msg("make_move_from_board", <<pr[1], pr[2]>>) :
        pr \in UNION {MultiPairs(OwnSquares(g, q)) \cup MovePairs(OpponentSquares(g, q)) :
                         q \in Players}}

BoardCommand(p) ==
    /\ \A q \in GameParties : pc[q] = "open"
    /\ Len(GameOf(p).moves) < MaxBoardPlies
    /\ \E msg \in BoardMessages(GameOf(p)) : Receive(p, msg)

NextBoards ==
    \E p \in GameParties :
        \/ Join(p)
        \/ Accept(p)
        \/ BoardCommand(p)
        \/ Send(p)

SpecBoards == Init /\ [][NextBoards]_vars

(***************************************************************************)
(* SpecLoop: random_player_move one engine call at a time, under the       *)
(* event loop: a handler runs until it awaits, and only then may another   *)
(* handler start or resume.  Two parties sit in one session whose game has *)
(* been played along a recorded game; frame[p] holds the locals of p's     *)
(* call.                                                                   *)
(***************************************************************************)
RecordedGame ==
    << <<10, 15>>, <<22, 18>>, <<15, 22>>, <<25, 18>>, <<7, 10>>, <<18, 15>>,
       <<10, 19>>, <<24, 15>>, <<11, 18>>, <<23, 14>>, <<9, 18>>, <<27, 24>>,
       <<3, 7>>, <<24, 19>>, <<7, 11>>, <<26, 23>>, <<18, 27>>, <<31, 24>>,
       <<12, 16>>, <<19, 12>>, <<12, 3>>, <<6, 9>>, <<24, 20>>, <<9, 13>>,
       <<29, 25>>, <<4, 8>>, <<3, 12>>, <<11, 16>>, <<20, 11>>, <<13, 17>>,
       <<21, 14>>, <<5, 9>>, <<14, 5>>, <<2, 7>>, <<11, 2>>, <<1, 6>>, <<2, 9>> >>

(* The games after 0, 1, ... moves of the recorded game.                   *)
RECURSIVE Replay(_)
Replay(played) ==
    IF Len(played) > Len(RecordedGame) THEN played
    ELSE Replay(Append(played, GameMove(played[Len(played)], RecordedGame[Len(played)])))

RecordedPositions == Replay(<<NewGame>>)

PositionAfter(k) == RecordedPositions[k + 1]

(* Where the runs start: the new game, the turns of the recorded game that *)
(* take more than one move, and its end.                                   *)
TurnStarts ==
    {k \in 0..Len(RecordedGame) :
        \/ k = 0
        \/ k = Len(RecordedGame)
        \/ /\ k + 2 <= Len(RecordedGame)
           /\ PositionAfter(k + 1).player_turn = PositionAfter(k).player_turn
           /\ PositionAfter(k + 1).further # None
           /\ PositionAfter(k).further = None}

LoopOpen(g) == \E k \in TurnStarts : Len(g.moves) - k \in 0..(MaxLoopPlies - 1)

LoopParties == {1, 2}

InitLoop ==
    /\ instances = [k \in Keys |-> IF k = 1 THEN 1 ELSE 0]
    /\ \E k \in TurnStarts :
          heap = <<[game |-> PositionAfter(k), instance_count |-> 2]>>
    /\ pc = [p \in Parties |-> IF p \in LoopParties THEN "open" ELSE "idle"]
    /\ room_group_name = [p \in Parties |-> IF p \in LoopParties THEN 1 ELSE 0]
    /\ game_ref = [p \in Parties |-> IF p \in LoopParties THEN 1 ELSE 0]
    /\ player_num = [p \in Parties |-> IF p \in LoopParties THEN PlayerSlot(p) ELSE 0]
    /\ text_data = [p \in Parties |-> NoMessage]
    /\ results = [p \in Parties |-> <<>>]
    /\ calls = [p \in Parties |-> <<>>]
    /\ joins = <<2>>
    /\ join_order = [p \in Parties |-> IF p \in LoopParties THEN p ELSE 0]
    /\ ended = [k \in Keys |-> "none"]
    /\ frame = [p \in Parties |-> NoFrame]
    /\ mapper = MapperIdle

SuspendedAnywhere(position) == TRUE

(* A handler is off the event loop when it has not started, has returned   *)
(* or waits at an await; inside random_player_move it keeps the loop.      *)
Suspended(position) == position # "running"

LoopFree == \A q \in Parties : Suspended(pc[q])

LoopExitsNever(g, turn) == FALSE

(* The negated while condition of random_player_move.                      *)
LoopExits(g, turn) == whose_turn(g) # turn

LoopReads == {Msg(c, <<>>) : c \in {"whose_turn", "moves", "add_opponent_pieces"}}

LoopRead(p) ==
    /\ LoopFree
    /\ pc[p] = "open"
    /\ \E msg \in LoopReads : Receive(p, msg)

(* receive up to the first line of random_player_move.                     *)
RandomBegin(p) ==
    /\ LoopFree
    /\ pc[p] = "open"
    /\ LoopOpen(GameOf(p))
    /\ pc' = [pc EXCEPT ![p] = "running"]
    /\ text_data' = [text_data EXCEPT ![p] = Msg("random_player_move", <<>>)]
    /\ frame' = [frame EXCEPT ![p] = [whose_turn |-> whose_turn(GameOf(p))]]
    /\ calls' = [calls EXCEPT ![p] = <<>>]
    /\ UNCHANGED <<instances, heap, room_group_name, game_ref, player_num,
                   results, joins, join_order, ended, mapper>>

RandomReturn(p, value) ==
    /\ results' = [results EXCEPT ![p] = <<value>>]
    /\ pc' = [pc EXCEPT ![p] = "sending"]
    /\ frame' = [frame EXCEPT ![p] = NoFrame]
    /\ UNCHANGED <<heap, calls>>

RandomApply(p, mm, move) ==
    IF ~mm.ok
    THEN RandomReturn(p, FALSE)
    ELSE /\ heap' = [heap EXCEPT ![game_ref[p]].game = mm.game]
         /\ calls' = [calls EXCEPT ![p] = Append(calls[p], move)]
         /\ UNCHANGED <<pc, results, frame>>

(* One test of the while condition and, when it holds, one pass of the     *)
(* body of random_player_move.                                             *)
RandomIterate(p) ==
    /\ pc[p] = "running"
    /\ IF LoopExits(GameOf(p), frame[p].whose_turn)
       THEN RandomReturn(p, TRUE)
       ELSE IF Len(moves(GameOf(p))) = 0
            THEN RandomReturn(p, FALSE)
            ELSE \E i \in 1..Len(moves(GameOf(p))) :
                    RandomApply(p, make_move(GameOf(p), moves(GameOf(p))[i]),
                                moves(GameOf(p))[i])
    /\ UNCHANGED <<instances, room_group_name, game_ref, player_num, text_data,
                   joins, join_order, ended, mapper>>

LoopSend(p) == LoopFree /\ Send(p)

NextLoop ==
    \E p \in LoopParties :
        \/ LoopRead(p)
        \/ RandomBegin(p)
        \/ RandomIterate(p)
        \/ LoopSend(p)

SpecLoop == InitLoop /\ [][NextLoop]_vars

(***************************************************************************)
(* SpecTurn: random_player_move pass by pass while the other party polls   *)
(* is_over.                                                                *)
(***************************************************************************)
TurnReads == {Msg("is_over", <<>>)}

TurnRead(p) ==
    /\ LoopFree
    /\ pc[p] = "open"
    /\ \E msg \in TurnReads : Receive(p, msg)

NextTurn ==
    \E p \in LoopParties :
        \/ TurnRead(p)
        \/ RandomBegin(p)
        \/ RandomIterate(p)
        \/ LoopSend(p)

SpecTurn == InitLoop /\ [][NextTurn]_vars

(* The event loop keeps running a handler until it awaits: weak fairness   *)
(* of the pass of the loop, WF_vars(RandomIterate(p)), where the pass is   *)
(* enabled exactly while the handler is inside random_player_move.         *)
HandlerRuns(p) == []<><<RandomIterate(p)>>_vars \/ []<>(pc[p] # "running")

SpecTurnFair == SpecTurn /\ \A p \in LoopParties : HandlerRuns(p)

(***************************************************************************)
(* SpecMap: the coordinate mapper on every square of the grid.             *)
(***************************************************************************)
InitMap ==
    /\ InitSystem
    /\ mapper \in {[MapperIdle EXCEPT !.grid_in = <<r, c>>] : r \in Rows, c \in Cols}

MapGridToCheckers(pl) ==
    /\ mapper.nums[pl] = <<>>
    /\ mapper' = [mapper EXCEPT
                    !.nums[pl] = <<grid_to_checkers(mapper.grid_in[1], mapper.grid_in[2], pl)>>]
    /\ UNCHANGED <<instances, heap, pc, room_group_name, game_ref, player_num,
                   text_data, results, calls, joins, join_order, ended, frame>>

MapCheckersToGrid(pl) ==
    /\ mapper.nums[pl] # <<>>
    /\ mapper.grids[pl] = NoSquare
    /\ mapper' = [mapper EXCEPT !.grids[pl] = checkers_to_grid(mapper.nums[pl][1], pl)]
    /\ UNCHANGED <<instances, heap, pc, room_group_name, game_ref, player_num,
                   text_data, results, calls, joins, join_order, ended, frame>>

NextMap ==
    \E pl \in MapperPlayers :
        \/ MapGridToCheckers(pl)
        \/ MapCheckersToGrid(pl)

SpecMap == InitMap /\ [][NextMap]_vars

(***************************************************************************)
(* SpecInverse: the coordinate mapper on every notation number.            *)
(***************************************************************************)
InitInverse ==
    /\ InitSystem
    /\ mapper \in {[MapperIdle EXCEPT !.grid_in = NoSquare,
                                      !.nums = [pl \in MapperPlayers |-> <<n>>]] :
                       n \in 1..PositionCount}

MapGridBack(pl) ==
    /\ mapper.grids[pl] # NoSquare
    /\ mapper.backs[pl] = <<>>
    /\ mapper' = [mapper EXCEPT
                    !.backs[pl] = <<grid_to_checkers(mapper.grids[pl][1],
                                                     mapper.grids[pl][2], pl)>>]
    /\ UNCHANGED <<instances, heap, pc, room_group_name, game_ref, player_num,
                   text_data, results, calls, joins, join_order, ended, frame>>

NextInverse ==
    \E pl \in MapperPlayers :
        \/ MapCheckersToGrid(pl)
        \/ MapGridBack(pl)

SpecInverse == InitInverse /\ [][NextInverse]_vars


(***************************************************************************)
(* Properties.                                                             *)
(***************************************************************************)
ConnectStep(p) == pc[p] = "idle" /\ pc'[p] = "accepting"

DisconnectStep(p) == pc[p] = "open" /\ pc'[p] = "idle"

CommandStep(p, cmd) ==
    pc[p] = "open" /\ pc'[p] = "sending" /\ text_data'[p].command = cmd

Live(i) == i \in 1..Len(heap) /\ heap[i] # Freed

Vacated(prev_board, curr_board) ==
    {sq \in Rows \X Cols : prev_board[sq[1]][sq[2]] /\ ~curr_board[sq[1]][sq[2]]}

Filled(prev_board, curr_board) ==
    {sq \in Rows \X Cols : ~prev_board[sq[1]][sq[2]] /\ curr_board[sq[1]][sq[2]]}

TheOne(S) == CHOOSE x \in S : TRUE

(* C1: every connected party holds the session the registry maps its room  *)
(* key to (so parties connected under one key share one session, and no    *)
(* session leaves the registry while a party that joined it is connected), *)
(* and a key that has a session is never given a second one.               *)
C1_Holds ==
    \A p \in Parties :
        Connected(p) =>
            /\ Live(game_ref[p])
            /\ instances[room_group_name[p]] = game_ref[p]

C1_NoSecondSession ==
    \A k \in Keys :
        (instances[k] # 0 /\ instances'[k] # 0) => instances'[k] = instances[k]

C1_OneSharedSession == [](C1_Holds) /\ [][C1_NoSecondSession]_vars

C1_Witness ==
    \E p \in Parties, q \in Parties :
        /\ p # q
        /\ pc[p] = "open" /\ pc[q] = "open"
        /\ room_group_name[p] = room_group_name[q]
        /\ game_ref[p] = game_ref[q]
        /\ \E k \in Keys : ended[k] # "none"

(* C2: once the count of the session of key k has fallen to zero, the next *)
(* connect under k gets a session object never handed out before, with a   *)
(* Game in its initial state and a count of one (zero before the join is   *)
(* counted), and the registry maps k to it.                                *)
C2_NextConnect ==
    \A p \in Parties, k \in Keys :
        ( /\ ConnectStep(p)
          /\ room_group_name'[p] = k
          /\ ended[k] # "none"
          /\ \A q \in Parties : Connected(q) => room_group_name[q] # k )
        => /\ game_ref'[p] > Len(heap)
           /\ instances'[k] = game_ref'[p]
           /\ heap'[game_ref'[p]] = [NewSession EXCEPT !.instance_count = 1]
           /\ heap'[game_ref'[p]].game.moves = <<>>

C2_FreshSessionAfterLastLeave == [][C2_NextConnect]_vars

C2_Witness ==
    \E p \in Parties :
        /\ pc[p] = "accepting"
        /\ ended[room_group_name[p]] = "moved"
        /\ game_ref[p] > 1
        /\ heap[game_ref[p]].game = NewGame
        /\ heap[game_ref[p]].instance_count = 1

(* C3: every session in the registry has instance_count >= 1 and a         *)
(* connected party that holds it, and a disconnect that brings a session's *)
(* count to zero or below removes that session from the registry.          *)
C3_Holds ==
    \A k \in Keys :
        instances[k] # 0 =>
            /\ Live(instances[k])
            /\ heap[instances[k]].instance_count >= 1
            /\ \E p \in Parties : Connected(p) /\ game_ref[p] = instances[k]

C3_RemovedInSameDisconnect ==
    \A p \in Parties :
        (DisconnectStep(p) /\ heap[game_ref[p]].instance_count - 1 <= 0)
        => \A k \in Keys : instances'[k] # game_ref[p]

C3_NoSessionWithoutParties == [](C3_Holds) /\ [][C3_RemovedInSameDisconnect]_vars

C3_Witness ==
    \E k \in Keys, k2 \in Keys :
        /\ ended[k] # "none" /\ instances[k] = 0
        /\ instances[k2] # 0
        /\ heap[instances[k2]].instance_count >= 2

(* C4: the first party to join a session holds slot 1, the second slot 2,  *)
(* and every later one the unassigned sentinel, whatever joins and leaves  *)
(* came before.                                                            *)
C4_SlotsByJoinOrder ==
    \A p \in Parties :
        Connected(p) =>
            player_num[p] = (IF join_order[p] = 1 THEN 1
                             ELSE IF join_order[p] = 2 THEN 2 ELSE Unassigned)

(* C5: when the snapshots differ in exactly one vacated and one filled     *)
(* dark square, make_move_from_board answers true exactly when the move    *)
(* [grid_to_checkers(vacated), grid_to_checkers(filled)] is among the      *)
(* engine's legal moves at call time, and then that move and no other has  *)
(* been played.                                                            *)
C5_Step ==
    \A p \in GameParties :
        CommandStep(p, "make_move_from_board") =>
            LET prev_board == text_data'[p].arguments[1]
                curr_board == text_data'[p].arguments[2]
                V == Vacated(prev_board, curr_board)
                F == Filled(prev_board, curr_board)
                v == TheOne(V)
                f == TheOne(F)
                move == <<grid_to_checkers(v[1], v[2], player_num[p]),
                          grid_to_checkers(f[1], f[2], player_num[p])>>
                g == GameOf(p)
                g2 == heap'[game_ref[p]].game
                legal == Contains(PossibleMoves(g), move)
            IN  (Cardinality(V) = 1 /\ Cardinality(F) = 1 /\ IsDark(v) /\ IsDark(f)) =>
                    /\ results'[p][1] = legal
                    /\ legal =>
                          /\ calls'[p] = <<move>>
                          /\ g2.moves = Append(g.moves, move)
                          /\ PositionIsOpen(g2.pieces, move[1])
                          /\ PositionHeldBy(g2.pieces, move[2], g.player_turn)
                    /\ ~legal => g2 = g

C5_AppliedIffLegal == [][C5_Step]_vars

C5_Witness ==
    \E p \in GameParties :
        /\ pc[p] = "sending"
        /\ text_data[p].command = "make_move_from_board"
        /\ results[p] = <<TRUE, <<>>>>
        /\ GameOf(p).prev_capture

(* C6: when the snapshots show no vacated square or no filled square,      *)
(* make_move_from_board answers false with an empty error list, hands no   *)
(* move to the engine, and the game is as it was.                          *)
C6_Step ==
    \A p \in GameParties :
        CommandStep(p, "make_move_from_board") =>
            LET prev_board == text_data'[p].arguments[1]
                curr_board == text_data'[p].arguments[2]
            IN  (Vacated(prev_board, curr_board) = {} \/ Filled(prev_board, curr_board) = {}) =>
                    /\ results'[p] = <<FALSE, <<>>>>
                    /\ calls'[p] = <<>>
                    /\ heap'[game_ref[p]].game = GameOf(p)

C6_NoMoveInferred == [][C6_Step]_vars

C6_Witness ==
    \E p \in GameParties :
        /\ pc[p] = "sending"
        /\ text_data[p].command = "make_move_from_board"
        /\ Vacated(text_data[p].arguments[1], text_data[p].arguments[2]) # {}
        /\ Filled(text_data[p].arguments[1], text_data[p].arguments[2]) = {}
        /\ results[p] = <<FALSE, <<>>>>
        /\ GameOf(p).moves # <<>>

(* C7: when a start and an end square are found and the engine rejects the *)
(* move, make_move_from_board answers false, the error list holds exactly  *)
(* the end square, the handler goes on to send its reply, and the game is  *)
(* as it was.                                                              *)
C7_Step ==
    \A p \in GameParties :
        CommandStep(p, "make_move_from_board") =>
            LET prev_board == text_data'[p].arguments[1]
                curr_board == text_data'[p].arguments[2]
                V == Vacated(prev_board, curr_board)
                F == Filled(prev_board, curr_board)
                v == TheOne(V)
                f == TheOne(F)
                move == <<grid_to_checkers(v[1], v[2], player_num[p]),
                          grid_to_checkers(f[1], f[2], player_num[p])>>
            IN  ( /\ Cardinality(V) = 1 /\ Cardinality(F) = 1
                  /\ ~Contains(PossibleMoves(GameOf(p)), move) )
                => /\ results'[p] = <<FALSE, <<f>>>>
                   /\ heap'[game_ref[p]].game = GameOf(p)

C7_RejectedMoveFlagsEnd == [][C7_Step]_vars

C7_Witness ==
    \E p \in GameParties :
        /\ pc[p] = "sending"
        /\ text_data[p].command = "make_move_from_board"
        /\ results[p][1] = FALSE
        /\ Len(results[p][2]) = 1
        /\ results[p][2][1] \in Filled(text_data[p].arguments[1], text_data[p].arguments[2])
        /\ GameOf(p).moves # <<>>

(* C8: for every dark square and player 1 or 2, checkers_to_grid of        *)
(* grid_to_checkers of the square is the square.                           *)
C8_RoundTrip ==
    \A pl \in Players :
        (IsDark(mapper.grid_in) /\ mapper.grids[pl] # NoSquare)
        => mapper.grids[pl] = mapper.grid_in

C8_Witness ==
    /\ IsDark(mapper.grid_in)
    /\ mapper.grid_in[1] % 2 = 1
    /\ mapper.grids[1] # NoSquare
    /\ mapper.grids[2] # NoSquare

(* C9: for every square of the grid, the notation for player 1 is 33 minus *)
(* the notation for player 2.                                              *)
C9_Mirroring ==
    (mapper.nums[1] # <<>> /\ mapper.nums[2] # <<>>)
    => mapper.nums[1][1] = 33 - mapper.nums[2][1]

C9_Witness ==
    /\ mapper.grid_in = <<0, 0>>
    /\ mapper.nums[1] # <<>>
    /\ mapper.nums[2] # <<>>

(* C10 as stated: in every game state and for each player p, the board     *)
(* add_opponent_pieces gives p's opponent validates as p's own board with  *)
(* no mismatches.                                                          *)
C10_ValidatesAsGiven ==
    \A i \in 1..Len(heap), p \in Players :
        Live(i) =>
            validate_player_board(heap[i].game,
                add_opponent_pieces(heap[i].game, OtherPlayer(p)), p) = <<>>

Rotate180(board) ==
    [r \in Rows |-> [c \in Cols |-> board[(BoardSize - 1) - r][(BoardSize - 1) - c]]]

(* C10 amended: the board add_opponent_pieces gives p's opponent, turned   *)
(* half a turn (square (r,c) read from (7-r,7-c)), validates as p's own    *)
(* board with no mismatches.                                               *)
C10_ValidatesWhenTurned ==
    \A i \in 1..Len(heap), p \in Players :
        Live(i) =>
            validate_player_board(heap[i].game,
                Rotate180(add_opponent_pieces(heap[i].game, OtherPlayer(p))), p) = <<>>

C10_Witness ==
    \E i \in 1..Len(heap) :
        /\ Live(i)
        /\ \E j \in 1..Len(heap[i].game.pieces) : heap[i].game.pieces[j].captured

(* C11: for a party with slot 1 or 2, validate_player_board lists exactly   *)
(* the squares in which the board's occupied squares and the squares of    *)
(* the player's non-captured pieces differ, each once, and is empty        *)
(* exactly when the two sets are equal.                                    *)
C11_Step ==
    \A p \in GameParties :
        (CommandStep(p, "validate_player_board") /\ player_num[p] \in Players) =>
            LET occ == Occupied(text_data'[p].arguments[1])
                E == OwnSquares(GameOf(p), player_num[p])
                res == results'[p][1]
            IN  /\ SeqRange(res) = (E \ occ) \cup (occ \ E)
                /\ Len(res) = Cardinality(SeqRange(res))
                /\ (res = <<>>) <=> (occ = E)

C11_SymmetricDifference == [][C11_Step]_vars

C11_Witness ==
    \E p \in GameParties :
        /\ pc[p] = "sending"
        /\ text_data[p].command = "validate_player_board"
        /\ player_num[p] \in Players
        /\ GameOf(p).moves # <<>>
        /\ Len(results[p][1]) = 1
        /\ results[p][1][1] \in Occupied(text_data[p].arguments[1])
        /\ results[p][1][1] \notin OwnSquares(GameOf(p), player_num[p])

(* C12: for a party with slot 1 or 2, add_opponent_pieces marks square     *)
(* (r,c) exactly when a non-captured piece of the opponent maps to it in   *)
(* the party's frame, and marks no square of the party's own pieces.       *)
C12_Step ==
    \A p \in GameParties :
        (CommandStep(p, "add_opponent_pieces") /\ player_num[p] \in Players) =>
            LET pieces == GameOf(p).pieces
                board == results'[p][1]
                me == player_num[p]
            IN  /\ DOMAIN board = Rows
                /\ \A r \in Rows : DOMAIN board[r] = Cols
                /\ \A r \in Rows, c \in Cols :
                      board[r][c] <=>
                          \E j \in 1..Len(pieces) :
                              /\ pieces[j].player # me
                              /\ ~pieces[j].captured
                              /\ checkers_to_grid(pieces[j].position, me) = <<r, c>>
                /\ \A j \in 1..Len(pieces) :
                      (pieces[j].player = me /\ ~pieces[j].captured) =>
                          LET rc == checkers_to_grid(pieces[j].position, me)
                          IN  ~board[rc[1]][rc[2]]

C12_OpponentSquaresOnly == [][C12_Step]_vars

C12_Witness ==
    \E p \in GameParties :
        /\ pc[p] = "sending"
        /\ text_data[p].command = "add_opponent_pieces"
        /\ player_num[p] \in Players
        /\ \E j \in 1..Len(GameOf(p).pieces) :
              GameOf(p).pieces[j].player # player_num[p] /\ GameOf(p).pieces[j].captured
        /\ Cardinality(Occupied(results[p][1])) \in 1..(StartingPieceCount - 1)

(* C13: no command of a party that holds the unassigned slot changes the   *)
(* session's game.                                                         *)
C13_Step ==
    \A p \in GameParties :
        (pc[p] = "open" /\ pc'[p] = "sending" /\ player_num[p] = Unassigned) =>
            heap'[game_ref[p]].game = GameOf(p)

C13_UnassignedNeverMoves == [][C13_Step]_vars

ReadOnlyCommands ==
    {"add_opponent_pieces", "validate_player_board", "whose_turn", "moves",
     "is_over", "player_num"}

(* C15: the read-only commands leave every session (its game and its party *)
(* count) and the registry unchanged.                                      *)
C15_Step ==
    \A p \in GameParties :
        (\E cmd \in ReadOnlyCommands : CommandStep(p, cmd)) =>
            /\ heap' = heap
            /\ instances' = instances

C15_ReadOnly == [][C15_Step]_vars

C15_Witness ==
    \E p \in GameParties :
        /\ pc[p] = "sending"
        /\ text_data[p].command = "moves"
        /\ player_num[p] = Unassigned
        /\ results[p][1] # <<>>
        /\ Len(GameOf(p).moves) = 2

(* C19: among the parties connected to one session at most one holds slot  *)
(* 1 and at most one holds slot 2.                                         *)
C19_UniqueSlots ==
    \A p \in Parties, q \in Parties :
        ( /\ p # q
          /\ pc[p] \in {"open", "sending"}
          /\ pc[q] \in {"open", "sending"}
          /\ game_ref[p] = game_ref[q]
          /\ player_num[p] = player_num[q] )
        => player_num[p] \notin Players

DarkSquares == {sq \in Rows \X Cols : IsDark(sq)}

(* C18: for players 1 and 2, grid_to_checkers maps the dark squares one to *)
(* one onto 1..32, and for every n in 1..32 checkers_to_grid(n) is a dark  *)
(* square of the grid that grid_to_checkers maps back to n.                *)
C18_Inverse ==
    \A pl \in Players :
        /\ {grid_to_checkers(sq[1], sq[2], pl) : sq \in DarkSquares} = 1..PositionCount
        /\ Cardinality(DarkSquares) = PositionCount
        /\ mapper.grids[pl] # NoSquare =>
              OnBoard(mapper.grids[pl]) /\ IsDark(mapper.grids[pl])
        /\ mapper.backs[pl] # <<>> => mapper.backs[pl] = mapper.nums[pl]

C18_Witness ==
    /\ mapper.nums[1] = <<PositionCount>>
    /\ mapper.backs[1] # <<>>
    /\ mapper.backs[2] # <<>>
    /\ mapper.grids[1] # mapper.grids[2]

(* What make_move_from_board does with the pair (last vacated square, last *)
(* filled square): the one move submitted, answered as any single move.    *)
LastPairSubmitted(p, V, F) ==
    LET v == LastInScan(V)
        f == LastInScan(F)
        move == <<grid_to_checkers(v[1], v[2], player_num[p]),
                  grid_to_checkers(f[1], f[2], player_num[p])>>
        g == GameOf(p)
        g2 == heap'[game_ref[p]].game
        legal == Contains(PossibleMoves(g), move)
    IN  /\ V # {} /\ F # {}
        /\ calls'[p] = <<move>>
        /\ results'[p] = <<legal, IF legal THEN <<>> ELSE <<f>>>>
        /\ g2.moves = IF legal THEN Append(g.moves, move) ELSE g.moves
        /\ ~legal => g2 = g

(* C16 as stated: whenever the snapshots differ in more than one vacated   *)
(* square or more than one filled square, exactly one move is submitted,   *)
(* built from the last vacated and the last filled square in row-major     *)
(* order.                                                                  *)
C16_StepAsStated ==
    \A p \in GameParties :
        CommandStep(p, "make_move_from_board") =>
            LET V == Vacated(text_data'[p].arguments[1], text_data'[p].arguments[2])
                F == Filled(text_data'[p].arguments[1], text_data'[p].arguments[2])
            IN  (Cardinality(V) > 1 \/ Cardinality(F) > 1) => LastPairSubmitted(p, V, F)

C16_LastPairAlways == [][C16_StepAsStated]_vars

(* C16 amended: the same, when at least one square is vacated and at least *)
(* one is filled; with none vacated or none filled no move is submitted.   *)
C16_StepAmended ==
    \A p \in GameParties :
        CommandStep(p, "make_move_from_board") =>
            LET V == Vacated(text_data'[p].arguments[1], text_data'[p].arguments[2])
                F == Filled(text_data'[p].arguments[1], text_data'[p].arguments[2])
            IN  (Cardinality(V) > 1 \/ Cardinality(F) > 1) =>
                    IF V # {} /\ F # {}
                    THEN LastPairSubmitted(p, V, F)
                    ELSE /\ calls'[p] = <<>>
                         /\ results'[p] = <<FALSE, <<>>>>
                         /\ heap'[game_ref[p]].game = GameOf(p)

C16_LastPairWhenBothFound == [][C16_StepAmended]_vars

C16_Witness ==
    \E p \in GameParties :
        /\ pc[p] = "sending"
        /\ text_data[p].command = "make_move_from_board"
        /\ Cardinality(Vacated(text_data[p].arguments[1], text_data[p].arguments[2])) = 2
        /\ Cardinality(Filled(text_data[p].arguments[1], text_data[p].arguments[2])) = 2
        /\ results[p] = <<TRUE, <<>>>>
        /\ Len(GameOf(p).moves) = 2

(* C20: a make_move_from_board command of a party with slot 1 or 2 leaves  *)
(* the game unchanged unless that slot is the turn owner at call time.     *)
C20_Step ==
    \A p \in GameParties :
        ( /\ CommandStep(p, "make_move_from_board")
          /\ player_num[p] \in Players
          /\ whose_turn(GameOf(p)) # player_num[p] )
        => heap'[game_ref[p]].game = GameOf(p)

C20_OnlyOnOwnTurn == [][C20_Step]_vars

(* C14: while a handler is between the first and the last engine access of *)
(* a command that applies moves, no other handler of the session runs (so  *)
(* none reads the turn owner, the legal moves or the pieces), at most one  *)
(* handler is in that position, and the moves it has applied are the       *)
(* latest moves of the game.                                               *)
C14_Step ==
    \A p \in Parties, q \in Parties :
        (p # q /\ pc[p] = "running" /\ Connected(q) /\ game_ref[q] = game_ref[p]) =>
            /\ pc'[q] = pc[q]
            /\ text_data'[q] = text_data[q]
            /\ results'[q] = results[q]
            /\ calls'[q] = calls[q]

C14_Holds ==
    \A p \in Parties :
        pc[p] = "running" =>
            /\ \A q \in Parties : q # p => pc[q] # "running"
            /\ Len(calls[p]) <= Len(GameOf(p).moves)
            /\ calls[p] = SubSeq(GameOf(p).moves,
                                 Len(GameOf(p).moves) - Len(calls[p]) + 1,
                                 Len(GameOf(p).moves))

C14_Serialized == [](C14_Holds) /\ [][C14_Step]_vars

C14_Witness ==
    \E p \in LoopParties, q \in LoopParties :
        /\ pc[p] = "running"
        /\ Len(calls[p]) = 1
        /\ whose_turn(GameOf(p)) = frame[p].whose_turn
        /\ pc[q] = "sending"
        /\ text_data[q].command = "moves"

(* C17: random_player_move returns; it returns true exactly when the turn  *)
(* owner differs from the one at call time, and false only when the turn   *)
(* owner has no legal moves, the game being left as it is; every move it   *)
(* applies is a legal move of the caller's turn at the moment it is        *)
(* applied.                                                                *)
C17_Step ==
    \A p \in LoopParties :
        pc[p] = "running" =>
            LET g == GameOf(p)
                g2 == heap'[game_ref[p]].game
            IN  /\ pc'[p] = "sending" =>
                      /\ g2 = g
                      /\ results'[p] \in {<<TRUE>>, <<FALSE>>}
                      /\ (results'[p] = <<TRUE>>) <=> (whose_turn(g) # frame[p].whose_turn)
                      /\ (results'[p] = <<FALSE>>) => PossibleMoves(g) = <<>>
                      /\ (calls[p] = <<>>) => results'[p] = <<FALSE>>
                /\ (pc'[p] = "running" /\ g2 # g) =>
                      /\ whose_turn(g) = frame[p].whose_turn
                      /\ \E i \in 1..Len(PossibleMoves(g)) :
                            /\ g2.moves = Append(g.moves, PossibleMoves(g)[i])
                            /\ calls'[p] = Append(calls[p], PossibleMoves(g)[i])
                /\ PossibleMoves(g) = <<>> => g2 = g

C17_Returns == \A p \in LoopParties : (pc[p] = "running") ~> (pc[p] = "sending")

C17_FullTurnOrFalse == [][C17_Step]_vars /\ C17_Returns

C17_Witness ==
    \E p \in LoopParties :
        /\ pc[p] = "sending"
        /\ text_data[p].command = "random_player_move"
        /\ results[p] = <<TRUE>>
        /\ Len(calls[p]) = 2

C17_WitnessNoMoves ==
    \E p \in LoopParties :
        /\ pc[p] = "sending"
        /\ text_data[p].command = "random_player_move"
        /\ results[p] = <<FALSE>>
        /\ calls[p] = <<>>

=============================================================================
